---- MODULE Spec2Model ----
(***************************************************************************)
(* Model of the temporal policy engine of june/policy.py: the Policy      *)
(* variants and their is_active windows, the Policies registry, and the   *)
(* two daily appliers that push state into the interaction coefficient    *)
(* table and the leisure probability table and pull it back.              *)
(*                                                                         *)
(* Dates are day numbers.  Coefficients (floats in the source) are exact  *)
(* rationals <<numerator, denominator>>; the appliers only multiply and   *)
(* copy them.  Probability curves are opaque values (positive numbers).   *)
(***************************************************************************)
EXTENDS Integers, Sequences, FiniteSets, TLC

\* ---------------------------------------------------------------- bounds
\* The simulated days are 0..MaxDay.
MaxDay == 3
\* A run repeats the call of an applier for a date it was already called
\* for at most MaxRepeats times.
MaxRepeats == 1

\* --------------------------------------------------------- program values
\* Default window of Policy.__init__, "1900-01-01" .. "2100-01-01": both lie
\* outside every simulated day.
DefaultStart == 0 - 2
DefaultEnd == MaxDay + 2

\* Python's None, as the value of a coefficient slot.
None == <<0, 0>>

RECURSIVE GCD(_, _)
GCD(a, b) == IF b = 0 THEN a ELSE GCD(b, a % b)

\* float multiplication, on exact rationals in lowest terms.  (None * x is a
\* TypeError in the source; it is kept as None so that the operator is total.)
Mul(x, y) ==
    IF x = None \/ y = None THEN None
    ELSE LET n == x[1] * y[1]
             d == x[2] * y[2]
             g == GCD(n, d)
         IN  IF g = 0 THEN None ELSE <<n \div g, d \div g>>

\* The keys of interaction.beta.
BetaKeys == {"household", "school"}

\* The activities leisure.leisure_distributors knows; "gym" is an activity a
\* policy may name that the table does not hold.
KnownActivities == {"pubs", "cinemas"}
Sexes == {"men", "women"}

\* original_leisure_probabilities[activity] = {} (nothing captured).
EmptySnapshot == [s \in {} |-> 0]
Curves(m, w) == [s \in Sexes |-> IF s = "men" THEN m ELSE w]

NoFactors == [k \in {} |-> None]

\* ----------------------------------------------------------------- state
VARIABLES
    policies,                        \* Policies.policies: sequence of policy records
    original_betas,                  \* per policy index: SocialDistancing.original_betas
    original_leisure_probabilities,  \* per policy index: ChangeLeisureProbability.original_leisure_probabilities
    beta,                            \* interaction.beta
    leisure_distributors,            \* leisure.leisure_distributors: activity -> male/female curves
    date,                            \* the date of the current simulated day
    sd_calls,                        \* calls of apply_social_distancing_policy made for date
    cl_calls,                        \* calls of apply_change_probabilities_leisure made for date
    raised,                          \* "none", or the exception that ended the run
    repeats,                         \* history: calls made for a date the applier was already called for
    initial_beta,                    \* history: interaction.beta before the run
    initial_leisure,                 \* history: leisure_distributors before the run
    call                             \* the latest constructor or query call: its arguments and its outcome

vars == <<policies, original_betas, original_leisure_probabilities, beta,
          leisure_distributors, date, sd_calls, cl_calls, raised,
          repeats, initial_beta, initial_leisure, call>>

\* No constructor or query has been recorded.
NoCall == [op |-> "none"]

\* ------------------------------------------------------------- policies
\* A value given as start_time or end_time: a str (in the format "%Y-%m-%d"
\* or not), a datetime.date, a datetime.datetime with its hour, or a value of
\* another type.
DateValue(kind, well_formed, day, hour) ==
    [kind |-> kind, well_formed |-> well_formed, day |-> day, hour |-> hour]

\* A read_date that takes a value of another type for the default start.
read_date_lenient(d) ==
    IF d.kind = "str"
    THEN IF d.well_formed
         THEN [raised |-> "none", value |-> d.day]
         ELSE [raised |-> "ValueError", value |-> 0]
    ELSE IF d.kind \in {"date", "datetime"}
    THEN [raised |-> "none", value |-> d.day]
    ELSE [raised |-> "none", value |-> DefaultStart]

\* Policy.read_date: strptime of a str (ValueError when it does not match the
\* format), midnight of the day of a date or datetime, TypeError otherwise.
\* The value is the day whose midnight the datetime is.
read_date(d) ==
    IF d.kind = "str"
    THEN IF d.well_formed
         THEN [raised |-> "none", value |-> d.day]
         ELSE [raised |-> "ValueError", value |-> 0]
    ELSE IF d.kind \in {"date", "datetime"}
    THEN [raised |-> "none", value |-> d.day]
    ELSE [raised |-> "TypeError", value |-> 0]

\* Policy.__init__: start_time is read first; an exception of read_date
\* leaves the constructor, and no policy object exists.
Policy_init(start_time, end_time) ==
    LET s == read_date(start_time)
        e == read_date(end_time)
    IN  IF s.raised # "none"
        THEN [raised |-> s.raised, constructed |-> FALSE, start_time |-> 0, end_time |-> 0]
        ELSE IF e.raised # "none"
        THEN [raised |-> e.raised, constructed |-> FALSE, start_time |-> 0, end_time |-> 0]
        ELSE [raised |-> "none", constructed |-> TRUE,
              start_time |-> s.value, end_time |-> e.value]

\* The variants' constructors after Policy.__init__ has read the window: the
\* fields every variant has, and the fields of its own.
PermanentPolicy ==
    [type |-> "PermanentPolicy", start_time |-> DefaultStart, end_time |-> DefaultEnd,
     beta_factors |-> NoFactors, leisure_probabilities |-> <<>>]

SocialDistancing(start_time, end_time, beta_factors) ==
    [type |-> "SocialDistancing", start_time |-> start_time, end_time |-> end_time,
     beta_factors |-> beta_factors, leisure_probabilities |-> <<>>]

\* leisure_probabilities is the dict in its insertion order: a sequence of
\* [activity, men, women] with distinct activities.
ChangeLeisureProbability(start_time, end_time, leisure_probabilities) ==
    [type |-> "ChangeLeisureProbability", start_time |-> start_time, end_time |-> end_time,
     beta_factors |-> NoFactors, leisure_probabilities |-> leisure_probabilities]

\* Defaults of Quarantine.__init__.
n_days_default == 7
n_days_household_default == 14

Quarantine(start_time, end_time, n_days, n_days_household, household_complacency) ==
    [type |-> "Quarantine", start_time |-> start_time, end_time |-> end_time,
     beta_factors |-> NoFactors, leisure_probabilities |-> <<>>,
     n_days |-> n_days, n_days_household |-> n_days_household,
     household_complacency |-> household_complacency]

\* complacency is None or a probability.
Shielding(start_time, end_time, min_age, complacency) ==
    [type |-> "Shielding", start_time |-> start_time, end_time |-> end_time,
     beta_factors |-> NoFactors, leisure_probabilities |-> <<>>,
     min_age |-> min_age, complacency |-> complacency]

\* years_to_close is None (given = FALSE) or a set of ages; "all" is the ages
\* np.arange(0, 20).  full_closure is None, False or True: its truth value.
Years(given, years) == [given |-> given, years |-> years]

CloseSchools(start_time, end_time, years_to_close, full_closure) ==
    [type |-> "CloseSchools", start_time |-> start_time, end_time |-> end_time,
     beta_factors |-> NoFactors, leisure_probabilities |-> <<>>,
     years_to_close |-> years_to_close, full_closure |-> full_closure]

CloseUniversities(start_time, end_time) ==
    [type |-> "CloseUniversities", start_time |-> start_time, end_time |-> end_time,
     beta_factors |-> NoFactors, leisure_probabilities |-> <<>>]

\* random_work_probability is None or a probability.
CloseCompanies(start_time, end_time, full_closure, random_work_probability) ==
    [type |-> "CloseCompanies", start_time |-> start_time, end_time |-> end_time,
     beta_factors |-> NoFactors, leisure_probabilities |-> <<>>,
     full_closure |-> full_closure,
     random_work_probability |-> random_work_probability]

\* venues_to_close is the sequence the caller gives.
CloseLeisureVenue(start_time, end_time, venues_to_close) ==
    [type |-> "CloseLeisureVenue", start_time |-> start_time, end_time |-> end_time,
     beta_factors |-> NoFactors, leisure_probabilities |-> <<>>,
     venues_to_close |-> venues_to_close]

\* An is_active that includes end_time.
Policy_is_active_closed(policy, d) ==
    policy.start_time <= d /\ d <= policy.end_time

\* Policy.is_active: the half-open window.
Policy_is_active(policy, d) ==
    policy.start_time <= d /\ d < policy.end_time

\* A ChangeLeisureProbability that does not override is_active.
ChangeLeisureProbability_is_active_inherited(policy, d) ==
    Policy_is_active(policy, d)

\* ChangeLeisureProbability.is_active: the override that includes end_time.
ChangeLeisureProbability_is_active(policy, d) ==
    policy.start_time <= d /\ d <= policy.end_time

\* policy.is_active(date), dispatched on the variant.
is_active(policy, d) ==
    IF policy.type = "ChangeLeisureProbability"
    THEN ChangeLeisureProbability_is_active(policy, d)
    ELSE Policy_is_active(policy, d)

\* The class hierarchy, for isinstance.
Bases(type) ==
    CASE type \in {"PermanentPolicy", "Quarantine", "Shielding"}
            -> {type, "StayHome", "Policy"}
      [] type \in {"CloseSchools", "CloseUniversities", "CloseCompanies"}
            -> {type, "SkipActivity", "Policy"}
      [] OTHER -> {type, "Policy"}

isinstance(policy, policy_type) == policy_type \in Bases(policy.type)

\* The argument of Policies(...): None, or a list of policies.
PoliciesNone == [is_none |-> TRUE, list |-> <<>>]
PoliciesList(list) == [is_none |-> FALSE, list |-> list]

\* "policies or list()": None and the empty list are falsy.
or_list(arg) == IF arg.is_none \/ arg.list = <<>> THEN <<>> ELSE arg.list

\* A constructor that adds no baseline to a list that holds a PermanentPolicy.
Policies_init_once(given) ==
    IF \E n \in 1..Len(given) : given[n].type = "PermanentPolicy"
    THEN given
    ELSE <<PermanentPolicy>> \o given

\* A constructor that registers the given policies alone.
Policies_init_given_only(given) == given

\* Policies.__init__
Policies_init(given) == <<PermanentPolicy>> \o given

\* Policies.get_active_policies_for_type: the matching policies, as their
\* indices in the registry, in registry order.
get_active_policies_for_type(policy_type, d) ==
    SelectSeq([i \in 1..Len(policies) |-> i],
              LAMBDA i: isinstance(policies[i], policy_type) /\ is_active(policies[i], d))

get_social_distancing_policies(d) ==
    get_active_policies_for_type("SocialDistancing", d)

get_change_leisure_probabilities_policies(d) ==
    get_active_policies_for_type("ChangeLeisureProbability", d)

\* ------------------------------------- apply_social_distancing_policy
\* The state a call works on: st = [beta, original_betas].

\* Body of the first loop: "deactivate policy, restore betas".
sd_deactivate_step(i, d, st) ==
    IF policies[i].end_time = d
    THEN [st EXCEPT !.beta =
            [k \in DOMAIN st.beta |->
                IF k \in DOMAIN st.original_betas[i]
                THEN st.original_betas[i][k] ELSE st.beta[k]]]
    ELSE st

\* An activation that saves the coefficient after multiplying it.
sd_activate_step_saves_late(i, d, st) ==
    IF policies[i].start_time = d
    THEN LET factors == policies[i].beta_factors
             new == [k \in DOMAIN st.beta |->
                        IF k \in DOMAIN factors
                        THEN Mul(st.beta[k], factors[k]) ELSE st.beta[k]]
         IN  [beta |-> new,
              original_betas |->
                [st.original_betas EXCEPT ![i] = [k \in DOMAIN factors |-> new[k]]]]
    ELSE st

\* Body of the second loop: "activate policy, save current betas".  The keys
\* of beta_factors are distinct, so the loop over them is one simultaneous
\* update.
sd_activate_step(i, d, st) ==
    IF policies[i].start_time = d
    THEN LET factors == policies[i].beta_factors
         IN  [beta |->
                [k \in DOMAIN st.beta |->
                    IF k \in DOMAIN factors
                    THEN Mul(st.beta[k], factors[k]) ELSE st.beta[k]],
              original_betas |->
                [st.original_betas EXCEPT
                    ![i] = [k \in DOMAIN factors |-> st.beta[k]]]]
    ELSE st

RECURSIVE sd_deactivation_pass(_, _, _)
sd_deactivation_pass(ps, d, st) ==
    IF ps = <<>> THEN st
    ELSE sd_deactivation_pass(Tail(ps), d, sd_deactivate_step(Head(ps), d, st))

RECURSIVE sd_activation_pass(_, _, _)
sd_activation_pass(ps, d, st) ==
    IF ps = <<>> THEN st
    ELSE sd_activation_pass(Tail(ps), d, sd_activate_step(Head(ps), d, st))

apply_social_distancing_policy(d, st) ==
    LET social_distancing_policies == get_social_distancing_policies(d)
    IN  sd_activation_pass(social_distancing_policies, d,
            sd_deactivation_pass(social_distancing_policies, d, st))

\* --------------------------------- apply_change_probabilities_leisure
\* The state a call works on:
\* st = [leisure_distributors, original_leisure_probabilities, raised].
\* An exception ends the call where it is raised: every later step of the
\* call leaves the state as it is.

\* An activation that skips an activity the table does not hold.
cl_activate_activity_skips(i, entry, st) ==
    IF st.raised # "none" THEN st
    ELSE IF entry.activity \notin DOMAIN st.leisure_distributors
    THEN st
    ELSE [st EXCEPT
            !.original_leisure_probabilities[i][entry.activity] =
                st.leisure_distributors[entry.activity],
            !.leisure_distributors[entry.activity] = Curves(entry.men, entry.women)]

\* Body of the loop "activate policy", for one configured activity.
cl_activate_activity(i, entry, st) ==
    IF st.raised # "none" THEN st
    ELSE IF entry.activity \notin DOMAIN st.leisure_distributors
    THEN [st EXCEPT !.raised = "PolicyError"]
    ELSE [st EXCEPT
            !.original_leisure_probabilities[i][entry.activity] =
                st.leisure_distributors[entry.activity],
            !.leisure_distributors[entry.activity] = Curves(entry.men, entry.women)]

\* Body of the loop "restore policy", for one configured activity.  Reading
\* ["men"] of a snapshot that is still {} is a KeyError.
cl_restore_activity(i, entry, st) ==
    IF st.raised # "none" THEN st
    ELSE IF entry.activity \notin DOMAIN st.leisure_distributors
    THEN [st EXCEPT !.raised = "PolicyError"]
    ELSE IF "men" \notin DOMAIN st.original_leisure_probabilities[i][entry.activity]
    THEN [st EXCEPT !.raised = "KeyError"]
    ELSE [st EXCEPT
            !.leisure_distributors[entry.activity] =
                st.original_leisure_probabilities[i][entry.activity]]

\* The loop "activate policy" without its check.
RECURSIVE cl_activate_each(_, _, _)
cl_activate_each(i, entries, st) ==
    IF entries = <<>> THEN st
    ELSE cl_activate_each(i, Tail(entries),
            [st EXCEPT
                !.original_leisure_probabilities[i][Head(entries).activity] =
                    st.leisure_distributors[Head(entries).activity],
                !.leisure_distributors[Head(entries).activity] =
                    Curves(Head(entries).men, Head(entries).women)])

\* An activation that checks every configured activity before it changes
\* the first one.
cl_activate_all_or_nothing(i, entries, st) ==
    IF st.raised # "none" THEN st
    ELSE IF \E n \in 1..Len(entries) :
                entries[n].activity \notin DOMAIN st.leisure_distributors
    THEN [st EXCEPT !.raised = "PolicyError"]
    ELSE cl_activate_each(i, entries, st)

RECURSIVE cl_activate(_, _, _)
cl_activate(i, entries, st) ==
    IF entries = <<>> THEN st
    ELSE cl_activate(i, Tail(entries), cl_activate_activity(i, Head(entries), st))

RECURSIVE cl_restore(_, _, _)
cl_restore(i, entries, st) ==
    IF entries = <<>> THEN st
    ELSE cl_restore(i, Tail(entries), cl_restore_activity(i, Head(entries), st))

\* A loop body that applies a policy's curves on every date of its window.
cl_policy_step_every_day(i, d, st) ==
    IF st.raised # "none" THEN st
    ELSE IF policies[i].start_time <= d /\ d < policies[i].end_time
    THEN cl_activate(i, policies[i].leisure_probabilities, st)
    ELSE IF policies[i].end_time = d
    THEN cl_restore(i, policies[i].leisure_probabilities, st)
    ELSE st

\* Body of the loop over active_policies: if start_time == date ... elif
\* end_time == date ...
cl_policy_step(i, d, st) ==
    IF st.raised # "none" THEN st
    ELSE IF policies[i].start_time = d
    THEN cl_activate(i, policies[i].leisure_probabilities, st)
    ELSE IF policies[i].end_time = d
    THEN cl_restore(i, policies[i].leisure_probabilities, st)
    ELSE st

RECURSIVE cl_policies_loop(_, _, _)
cl_policies_loop(ps, d, st) ==
    IF ps = <<>> THEN st
    ELSE cl_policies_loop(Tail(ps), d, cl_policy_step(Head(ps), d, st))

apply_change_probabilities_leisure(d, st) ==
    LET active_policies == get_change_leisure_probabilities_policies(d)
    IN  cl_policies_loop(active_policies, d, st)

\* ------------------------------------------------------- configurations
\* The dates a policy window may name: the simulated days, and one day
\* before the run begins (a policy that started, or ended, before the first
\* call of the run).
PolicyDays == (0 - 1)..MaxDay
Windows == PolicyDays \X PolicyDays

\* beta_factors of the candidate SocialDistancing policies.
BetaFactorChoices ==
    { [k \in {"household"} |-> <<1, 2>>],
      [k \in BetaKeys |-> IF k = "household" THEN <<1, 2>> ELSE <<3, 1>>] }

\* leisure_activities_probabilities of the candidate ChangeLeisureProbability
\* policies, after parse_age_probabilites: every curve is a value of its own.
LeisureChoices ==
    { << [activity |-> "pubs", men |-> 11, women |-> 12] >>,
      << [activity |-> "pubs", men |-> 21, women |-> 22],
         [activity |-> "cinemas", men |-> 23, women |-> 24] >>,
      << [activity |-> "cinemas", men |-> 31, women |-> 32],
         [activity |-> "gym", men |-> 33, women |-> 34],
         [activity |-> "pubs", men |-> 35, women |-> 36] >>,
      << [activity |-> "gym", men |-> 41, women |-> 42],
         [activity |-> "pubs", men |-> 43, women |-> 44] >> }

SDCandidates ==
    { SocialDistancing(w[1], w[2], f) : w \in Windows, f \in BetaFactorChoices }

CLCandidates ==
    { ChangeLeisureProbability(w[1], w[2], c) : w \in Windows, c \in LeisureChoices }

\* The lists given to Policies(...): none, one or two stateful policies; two
\* policies of different families share their window.
Registries ==
    {<<>>}
    \cup { <<p>> : p \in SDCandidates \cup CLCandidates }
    \cup { <<p, q>> : p \in SDCandidates, q \in SDCandidates }
    \cup { <<p, q>> : p \in CLCandidates, q \in CLCandidates }
    \cup { <<SocialDistancing(w[1], w[2], f), ChangeLeisureProbability(w[1], w[2], c)>> :
                w \in Windows, f \in BetaFactorChoices, c \in LeisureChoices }

\* interaction.beta before the run: nonzero coefficients.
InitialBetas ==
    { [k \in BetaKeys |-> IF k = "household" THEN v ELSE <<1, 1>>] :
        v \in {<<2, 1>>, <<3, 2>>} }

\* leisure.leisure_distributors before the run.
InitialLeisure ==
    [a \in KnownActivities |-> IF a = "pubs" THEN Curves(1, 2) ELSE Curves(3, 4)]

Activities(policy) ==
    { policy.leisure_probabilities[n].activity :
        n \in 1..Len(policy.leisure_probabilities) }

\* SocialDistancing.__init__: original_betas[key] = None for every key.
SocialDistancing_init(policy) ==
    [k \in DOMAIN policy.beta_factors |-> None]

\* ChangeLeisureProbability.__init__: original_leisure_probabilities[activity] = {}.
ChangeLeisureProbability_init(policy) ==
    [a \in Activities(policy) |-> EmptySnapshot]

HasType(given, type) == \E n \in 1..Len(given) : given[n].type = type

Init ==
    \E given \in Registries :
        /\ policies = Policies_init(given)
        /\ original_betas =
                [i \in 1..Len(policies) |-> SocialDistancing_init(policies[i])]
        /\ original_leisure_probabilities =
                [i \in 1..Len(policies) |-> ChangeLeisureProbability_init(policies[i])]
        /\ beta \in IF HasType(given, "SocialDistancing")
                    THEN InitialBetas
                    ELSE { [k \in BetaKeys |-> <<1, 1>>] }
        /\ leisure_distributors = InitialLeisure
        /\ date = 0
        /\ sd_calls = 0
        /\ cl_calls = 0
        /\ raised = "none"
        /\ repeats = 0
        /\ initial_beta = beta
        /\ initial_leisure = leisure_distributors
        /\ call = NoCall

\* --------------------------------------------------------------- actions
\* A call of apply_social_distancing_policy for the current date.
SocialDistancingCall ==
    /\ raised = "none"
    /\ LET st == apply_social_distancing_policy(date,
                    [beta |-> beta, original_betas |-> original_betas])
       IN  /\ beta' = st.beta
           /\ original_betas' = st.original_betas
    /\ sd_calls' = sd_calls + 1
    /\ UNCHANGED <<policies, original_leisure_probabilities, leisure_distributors,
                   date, cl_calls, raised, initial_beta, initial_leisure, call>>

\* A call of apply_change_probabilities_leisure for the current date; an
\* exception it raises ends the run.
ChangeLeisureCall ==
    /\ raised = "none"
    /\ LET st == apply_change_probabilities_leisure(date,
                    [leisure_distributors |-> leisure_distributors,
                     original_leisure_probabilities |-> original_leisure_probabilities,
                     raised |-> "none"])
       IN  /\ leisure_distributors' = st.leisure_distributors
           /\ original_leisure_probabilities' = st.original_leisure_probabilities
           /\ raised' = st.raised
    /\ cl_calls' = cl_calls + 1
    /\ UNCHANGED <<policies, original_betas, beta, date, sd_calls,
                   initial_beta, initial_leisure, call>>

\* The simulation's step loop applies the social distancing policies of the
\* current date.
ApplySocialDistancing ==
    /\ sd_calls = 0
    /\ SocialDistancingCall
    /\ UNCHANGED repeats

\* The step loop applies the leisure probability policies of the current
\* date.
ApplyChangeLeisure ==
    /\ cl_calls = 0
    /\ ChangeLeisureCall
    /\ UNCHANGED repeats

\* The step loop moves to the next simulated day once both appliers have
\* been called for this one.
NextDay ==
    /\ raised = "none"
    /\ date < MaxDay
    /\ sd_calls >= 1
    /\ cl_calls >= 1
    /\ date' = date + 1
    /\ sd_calls' = 0
    /\ cl_calls' = 0
    /\ UNCHANGED <<policies, original_betas, original_leisure_probabilities, beta,
                   leisure_distributors, raised, repeats, initial_beta,
                   initial_leisure, call>>

Next == ApplySocialDistancing \/ ApplyChangeLeisure \/ NextDay

\* The run of the step loop: each applier is called once for every day.
Spec == Init /\ [][Next]_vars

\* A caller that calls an applier again for a date it was already called for.
RepeatSocialDistancing ==
    /\ sd_calls >= 1
    /\ repeats < MaxRepeats
    /\ SocialDistancingCall
    /\ repeats' = repeats + 1

RepeatChangeLeisure ==
    /\ cl_calls >= 1
    /\ repeats < MaxRepeats
    /\ ChangeLeisureCall
    /\ repeats' = repeats + 1

NextRepeat ==
    \/ ApplySocialDistancing
    \/ ApplyChangeLeisure
    \/ NextDay
    \/ RepeatSocialDistancing
    \/ RepeatChangeLeisure

\* The runs in which calls may be repeated.
SpecRepeat == Init /\ [][NextRepeat]_vars

\* ---------------------------------------------------------- construction
\* The registry Policies(arg) and its collaborators before any applier call.
InitRegistry(arg) ==
    /\ policies = Policies_init(or_list(arg))
    /\ original_betas =
            [i \in 1..Len(policies) |-> SocialDistancing_init(policies[i])]
    /\ original_leisure_probabilities =
            [i \in 1..Len(policies) |-> ChangeLeisureProbability_init(policies[i])]
    /\ beta = [k \in BetaKeys |-> <<1, 1>>]
    /\ leisure_distributors = InitialLeisure
    /\ date = 0
    /\ sd_calls = 0
    /\ cl_calls = 0
    /\ raised = "none"
    /\ repeats = 0
    /\ initial_beta = beta
    /\ initial_leisure = leisure_distributors
    /\ call = [op |-> "Policies", policies |-> arg]

\* A query or a constructor call changes nothing but its record.
QueryFrame ==
    UNCHANGED <<policies, original_betas, original_leisure_probabilities, beta,
                leisure_distributors, date, sd_calls, cl_calls, raised, repeats,
                initial_beta, initial_leisure>>

\* The classes of the module that are policies.
PolicyTypes ==
    {"PermanentPolicy", "SocialDistancing", "ChangeLeisureProbability", "Quarantine",
     "Shielding", "CloseSchools", "CloseUniversities", "CloseCompanies",
     "CloseLeisureVenue"}

\* The values a caller passes as start_time or end_time: the default strings,
\* a string of a simulated day, a string that is no date, a date, a datetime
\* at noon, an int and None.
DateArgs ==
    { DateValue("str", TRUE, DefaultStart, 0), DateValue("str", TRUE, DefaultEnd, 0),
      DateValue("str", TRUE, 1, 0), DateValue("str", FALSE, 0, 0),
      DateValue("date", TRUE, MaxDay, 0), DateValue("datetime", TRUE, 1, 12),
      DateValue("int", TRUE, 1, 0), DateValue("NoneType", TRUE, 0, 0) }

\* A policy of some variant is constructed: the variant's __init__ begins
\* with Policy.__init__(start_time, end_time).
PolicyConstruct ==
    /\ \E type \in PolicyTypes, start_time \in DateArgs, end_time \in DateArgs :
            call' = [op |-> "Policy.__init__", type |-> type,
                     start_time |-> start_time, end_time |-> end_time,
                     result |-> Policy_init(start_time, end_time)]
    /\ QueryFrame

NextConstruct == PolicyConstruct

InitConstruct == InitRegistry(PoliciesNone)

\* Policies are constructed, one after another.
SpecConstruct == InitConstruct /\ [][NextConstruct]_vars

\* ------------------------------------------------------------ stay home
\* x < y on rationals with positive denominators.
Less(x, y) == x[1] * y[2] < y[1] * x[2]

\* A person, as the stay-home policies read it: hospital is "None" or
\* a hospital; reading symptoms.tag may fail; health_information is None
\* (present = FALSE) or holds a tag and the time of symptoms onset.
Person(hospital, age, readable, present, tag, onset) ==
    [hospital |-> hospital, age |-> age,
     symptoms |-> [readable |-> readable, tag |-> tag],
     health_information |->
        [present |-> present, tag |-> tag, time_of_symptoms_onset |-> onset]]

\* The outcome of one must_stay_at_home: its value, the exception it raised
\* and the random draws it left.
Outcome(value, exception, rands) ==
    [value |-> value, raised |-> exception, rands |-> rands]

\* PermanentPolicy.must_stay_at_home
PermanentPolicy_must_stay_at_home(policy, person, days_from_start, housemates, rands) ==
    Outcome(/\ person.health_information.present
            /\ person.health_information.tag = "severe",
            "none", rands)

\* A must_stay_at_home whose window includes the day of onset and the
\* release day.
Quarantine_must_stay_at_home_inclusive(policy, person, days_from_start, housemates, rands) ==
    LET onset == person.health_information.time_of_symptoms_onset
        self_quarantine ==
            /\ person.symptoms.readable
            /\ person.symptoms.tag \in {"mild", "severe"}
            /\ person.health_information.present
            /\ onset + policy.n_days >= days_from_start
            /\ days_from_start >= onset
    IN  Outcome(self_quarantine \/ housemates, "none", rands)

\* A must_stay_at_home without the try ... except around the symptom reads.
Quarantine_must_stay_at_home_no_except(policy, person, days_from_start, housemates, rands) ==
    LET onset == person.health_information.time_of_symptoms_onset
    IN  IF ~person.symptoms.readable
        THEN Outcome(FALSE, "AttributeError", rands)
        ELSE IF person.symptoms.tag \notin {"mild", "severe"}
        THEN Outcome(housemates, "none", rands)
        ELSE IF ~person.health_information.present
        THEN Outcome(FALSE, "AttributeError", rands)
        ELSE Outcome((onset + policy.n_days > days_from_start
                        /\ days_from_start > onset) \/ housemates,
                     "none", rands)

\* Quarantine.must_stay_at_home: an exception of the symptom reads leaves
\* self_quarantine False; housemates is what residence.group.quarantine
\* answers.
Quarantine_must_stay_at_home(policy, person, days_from_start, housemates, rands) ==
    LET onset == person.health_information.time_of_symptoms_onset
        release_day == onset + policy.n_days
        self_quarantine ==
            IF ~person.symptoms.readable THEN FALSE
            ELSE IF person.symptoms.tag \in {"mild", "severe"}
            THEN IF ~person.health_information.present THEN FALSE
                 ELSE release_day > days_from_start /\ days_from_start > onset
            ELSE FALSE
    IN  Outcome(self_quarantine \/ housemates, "none", rands)

\* Shielding.must_stay_at_home: np.random.rand() is drawn only for a person
\* of the age when complacency is set.
Shielding_must_stay_at_home(policy, person, days_from_start, housemates, rands) ==
    IF person.age >= policy.min_age
    THEN IF policy.complacency = None
         THEN Outcome(TRUE, "none", rands)
         ELSE Outcome(Less(Head(rands), policy.complacency), "none", Tail(rands))
    ELSE Outcome(FALSE, "none", rands)

\* policy.must_stay_at_home(person, days_from_start), dispatched on the variant.
must_stay_at_home(policy, person, days_from_start, housemates, rands) ==
    CASE policy.type = "Quarantine" ->
            Quarantine_must_stay_at_home(policy, person, days_from_start, housemates, rands)
      [] policy.type = "Shielding" ->
            Shielding_must_stay_at_home(policy, person, days_from_start, housemates, rands)
      [] OTHER ->
            PermanentPolicy_must_stay_at_home(policy, person, days_from_start, housemates, rands)

\* The record of a StayHomeCollection call so far: the members evaluated,
\* what each returned, the result, the exception and the draws left.
Evaluation(evaluated, returns, result, exception, rands) ==
    [evaluated |-> evaluated, returns |-> returns, result |-> result,
     raised |-> exception, rands |-> rands]

\* A loop that asks every member before it answers.
RECURSIVE stay_home_loop_asks_all(_, _, _, _, _)
stay_home_loop_asks_all(members, person, days_from_start, housemates, ev) ==
    IF members = <<>> THEN ev
    ELSE LET i == Head(members)
             r == must_stay_at_home(policies[i], person, days_from_start,
                                    housemates, ev.rands)
         IN  stay_home_loop_asks_all(Tail(members), person, days_from_start, housemates,
                Evaluation(Append(ev.evaluated, i), Append(ev.returns, r.value),
                           ev.result \/ r.value, "none", r.rands))

\* The loop of StayHomeCollection.__call__: "return True" at the first member
\* whose must_stay_at_home is true, "return False" after the last.
RECURSIVE stay_home_loop(_, _, _, _, _)
stay_home_loop(members, person, days_from_start, housemates, ev) ==
    IF members = <<>> THEN ev
    ELSE LET i == Head(members)
             r == must_stay_at_home(policies[i], person, days_from_start,
                                    housemates, ev.rands)
             asked == Evaluation(Append(ev.evaluated, i), Append(ev.returns, r.value),
                                 FALSE, r.raised, r.rands)
         IN  IF r.raised # "none" THEN asked
             ELSE IF r.value THEN [asked EXCEPT !.result = TRUE]
             ELSE stay_home_loop(Tail(members), person, days_from_start, housemates, asked)

\* A collection that asks its members about a person in hospital too.
StayHomeCollection_call_ignores_hospital(members, person, days_from_start, housemates, rands) ==
    stay_home_loop(members, person, days_from_start, housemates,
                   Evaluation(<<>>, <<>>, FALSE, "none", rands))

\* StayHomeCollection.__call__
StayHomeCollection_call(members, person, days_from_start, housemates, rands) ==
    IF person.hospital = "None"
    THEN stay_home_loop(members, person, days_from_start, housemates,
                        Evaluation(<<>>, <<>>, FALSE, "none", rands))
    ELSE Evaluation(<<>>, <<>>, FALSE, "none", rands)

\* Policies._stay_home_policies and Policies.stay_home_collection: the
\* collection is its list of members.
stay_home_policies(d) == get_active_policies_for_type("StayHome", d)
stay_home_collection(d) == stay_home_policies(d)

\* days_from_start of a query.
MaxDaysFromStart == 13
DaysFromStart == 5..MaxDaysFromStart

\* The stay-home policies a registry is given: the baseline once more, a
\* Quarantine with the default window and durations, one with a window of
\* simulated days and a shorter n_days, and Shielding with and without
\* complacency.
StayHomeCandidates ==
    { PermanentPolicy,
      Quarantine(DefaultStart, DefaultEnd, n_days_default, n_days_household_default, <<1, 1>>),
      Quarantine(1, MaxDay, 3, n_days_household_default, <<1, 1>>),
      Shielding(DefaultStart, DefaultEnd, 70, None),
      Shielding(0, MaxDay, 70, <<1, 2>>) }

StayHomeRegistries ==
    {<<>>}
    \cup { <<p>> : p \in StayHomeCandidates }
    \cup { <<p, q>> : p \in StayHomeCandidates, q \in StayHomeCandidates }

\* The persons asked about: in hospital or not, below or of the shielding
\* age, with or without readable symptoms and health information, symptoms
\* from day 5.
Persons ==
    { Person(hospital, age, readable, present, tag, 5) :
        hospital \in {"None", "hospital"}, age \in {69, 70},
        readable \in BOOLEAN, present \in BOOLEAN,
        tag \in {"healthy", "mild", "severe"} }

\* The values np.random.rand() returns, in the order they are drawn.
RandomDraws == { << <<1, 4>>, <<3, 4>> >>, << <<3, 4>>, <<1, 4>> >> }

\* No query has been recorded for the current date.
NoQueryYet == call.op \in {"none", "Policies"}

InitStayHome == \E given \in StayHomeRegistries : InitRegistry(PoliciesList(given))

\* The step loop builds the stay-home collection of the current date and
\* asks it about a person.
StayHomeCall ==
    /\ NoQueryYet
    /\ \E person \in Persons, days_from_start \in DaysFromStart,
          housemates \in BOOLEAN, rands \in RandomDraws :
            call' = [op |-> "StayHomeCollection", date |-> date,
                     members |-> stay_home_collection(date), person |-> person,
                     days_from_start |-> days_from_start, housemates |-> housemates,
                     rands |-> rands,
                     outcome |-> StayHomeCollection_call(stay_home_collection(date),
                                    person, days_from_start, housemates, rands)]
    /\ QueryFrame

\* A registered Quarantine policy is asked about a person.
QuarantineCall ==
    /\ NoQueryYet
    /\ \E i \in 1..Len(policies), person \in Persons,
          days_from_start \in DaysFromStart, housemates \in BOOLEAN :
            /\ policies[i].type = "Quarantine"
            /\ call' = [op |-> "Quarantine.must_stay_at_home", policy |-> i,
                        person |-> person, days_from_start |-> days_from_start,
                        housemates |-> housemates,
                        outcome |-> must_stay_at_home(policies[i], person,
                                        days_from_start, housemates, <<>>)]
    /\ QueryFrame

\* The step loop moves to the next simulated day.
QueryNextDay ==
    /\ date < MaxDay
    /\ date' = date + 1
    /\ call' = NoCall
    /\ UNCHANGED <<policies, original_betas, original_leisure_probabilities, beta,
                   leisure_distributors, sd_calls, cl_calls, raised, repeats,
                   initial_beta, initial_leisure>>

NextStayHome == StayHomeCall \/ QuarantineCall \/ QueryNextDay

SpecStayHome == InitStayHome /\ [][NextStayHome]_vars

\* -------------------------------------------------------- skip activity
\* A person, as the skip-activity policies read it: primary_activity is
\* "None" or the spec of its group; residents are the lockdown_status of the
\* residents of the person's residence, in their order.
Worker(age, primary_activity, lockdown_status, residents) ==
    [age |-> age, primary_activity |-> primary_activity,
     lockdown_status |-> lockdown_status, residents |-> residents]

\* The outcome of one skip_activity: the list it returns, the exception it
\* raised and the random draws it left.
Skipped(activities, exception, rands) ==
    [activities |-> activities, raised |-> exception, rands |-> rands]

\* A remove_activities that puts what it keeps in reverse order.
RECURSIVE remove_activities_reversed(_, _)
remove_activities_reversed(activities, activities_to_remove) ==
    IF activities = <<>> THEN <<>>
    ELSE IF Head(activities) \in activities_to_remove
    THEN remove_activities_reversed(Tail(activities), activities_to_remove)
    ELSE Append(remove_activities_reversed(Tail(activities), activities_to_remove),
                Head(activities))

\* SkipActivity.remove_activities: the list comprehension.
remove_activities(activities, activities_to_remove) ==
    SelectSeq(activities, LAMBDA activity: activity \notin activities_to_remove)

\* The loop of CloseSchools._check_kid_goes_to_school over the residents.
RECURSIVE keyworkers_loop(_, _)
keyworkers_loop(residents, keyworkers_parents) ==
    IF residents = <<>> THEN FALSE
    ELSE IF Head(residents) = "key_worker"
    THEN IF keyworkers_parents + 1 > 1 THEN TRUE
         ELSE keyworkers_loop(Tail(residents), keyworkers_parents + 1)
    ELSE keyworkers_loop(Tail(residents), keyworkers_parents)

\* An exemption that one key worker at home is enough for.
check_kid_goes_to_school_one_keyworker(person) ==
    IF person.age < 14 THEN keyworkers_loop(person.residents, 1) ELSE FALSE

\* An exemption that includes the age of 14.
check_kid_goes_to_school_inclusive(person) ==
    IF person.age <= 14 THEN keyworkers_loop(person.residents, 0) ELSE FALSE

\* CloseSchools._check_kid_goes_to_school
check_kid_goes_to_school(person) ==
    IF person.age < 14 THEN keyworkers_loop(person.residents, 0) ELSE FALSE

\* CloseSchools.skip_activity: "person.age in self.years_to_close" is a
\* TypeError when years_to_close is None.
CloseSchools_skip_activity(policy, person, activities, rands) ==
    IF person.primary_activity = "school"
    THEN IF ~policy.full_closure /\ ~policy.years_to_close.given
         THEN Skipped(activities, "TypeError", rands)
         ELSE IF /\ (policy.full_closure \/ person.age \in policy.years_to_close.years)
                 /\ ~check_kid_goes_to_school(person)
         THEN Skipped(remove_activities(activities, {"primary_activity"}), "none", rands)
         ELSE Skipped(activities, "none", rands)
    ELSE Skipped(activities, "none", rands)

\* CloseUniversities.skip_activity
CloseUniversities_skip_activity(policy, person, activities, rands) ==
    IF person.primary_activity = "university"
    THEN Skipped(remove_activities(activities, {"primary_activity"}), "none", rands)
    ELSE Skipped(activities, "none", rands)

\* CloseCompanies.skip_activity: np.random.rand() is drawn only for a person
\* with lockdown_status "random" when random_work_probability is set.
CloseCompanies_skip_activity(policy, person, activities, rands) ==
    IF person.primary_activity = "company"
    THEN IF policy.full_closure \/ person.lockdown_status = "furlough"
         THEN Skipped(remove_activities(activities, {"primary_activity", "commute"}),
                      "none", rands)
         ELSE IF person.lockdown_status = "random" /\ policy.random_work_probability # None
         THEN IF Less(policy.random_work_probability, Head(rands))
              THEN Skipped(remove_activities(activities, {"primary_activity", "commute"}),
                           "none", Tail(rands))
              ELSE Skipped(activities, "none", Tail(rands))
         ELSE Skipped(activities, "none", rands)
    ELSE Skipped(activities, "none", rands)

\* policy.skip_activity(person, activities), dispatched on the variant.
skip_activity(policy, person, activities, rands) ==
    CASE policy.type = "CloseSchools" ->
            CloseSchools_skip_activity(policy, person, activities, rands)
      [] policy.type = "CloseUniversities" ->
            CloseUniversities_skip_activity(policy, person, activities, rands)
      [] OTHER ->
            CloseCompanies_skip_activity(policy, person, activities, rands)

\* The record of a SkipActivityCollection call so far: the current list, the
\* list each member asked returned, the exception and the draws left.
Threaded(activities, steps, exception, rands) ==
    [activities |-> activities, steps |-> steps, raised |-> exception, rands |-> rands]

\* A loop that gives every member the list the collection was called with.
RECURSIVE skip_loop_unthreaded(_, _, _)
skip_loop_unthreaded(members, person, th) ==
    IF members = <<>> THEN th
    ELSE LET given == IF th.steps = <<>> THEN th.activities ELSE th.given
             r == skip_activity(policies[Head(members)], person, given, th.rands)
         IN  IF r.raised # "none"
             THEN [th EXCEPT !.raised = r.raised]
             ELSE skip_loop_unthreaded(Tail(members), person,
                    [activities |-> r.activities,
                     steps |-> Append(th.steps, r.activities),
                     raised |-> "none", rands |-> r.rands, given |-> given])

\* The loop of SkipActivityCollection.__call__:
\* activities = policy.skip_activity(person, activities).
RECURSIVE skip_loop(_, _, _)
skip_loop(members, person, th) ==
    IF members = <<>> THEN th
    ELSE LET r == skip_activity(policies[Head(members)], person, th.activities, th.rands)
         IN  IF r.raised # "none"
             THEN Threaded(th.activities, th.steps, r.raised, r.rands)
             ELSE skip_loop(Tail(members), person,
                    Threaded(r.activities, Append(th.steps, r.activities), "none", r.rands))

\* SkipActivityCollection.__call__
SkipActivityCollection_call(members, person, activities, rands) ==
    skip_loop(members, person, Threaded(activities, <<>>, "none", rands))

\* Policies._skip_activity_policies and Policies.skip_activity_collection
skip_activity_policies(d) == get_active_policies_for_type("SkipActivity", d)
skip_activity_collection(d) == skip_activity_policies(d)

\* ------------------------------------------------------- closed venues
\* Policies.close_venues_policies
close_venues_policies(d) == get_active_policies_for_type("CloseLeisureVenue", d)

\* closed_venues.update(policy.venues_to_close)
update(closed_venues, venues_to_close) ==
    closed_venues \cup { venues_to_close[n] : n \in 1..Len(venues_to_close) }

\* A loop in which a later policy replaces the venues of the earlier ones.
RECURSIVE closed_venues_loop_last_wins(_, _)
closed_venues_loop_last_wins(ps, closed_venues) ==
    IF ps = <<>> THEN closed_venues
    ELSE closed_venues_loop_last_wins(Tail(ps), update({}, policies[Head(ps)].venues_to_close))

\* The loop of find_closed_venues over the active policies.
RECURSIVE closed_venues_loop(_, _)
closed_venues_loop(ps, closed_venues) ==
    IF ps = <<>> THEN closed_venues
    ELSE closed_venues_loop(Tail(ps),
            update(closed_venues, policies[Head(ps)].venues_to_close))

\* A find_closed_venues that closes the default venues when no policy is
\* active.
find_closed_venues_default(d) ==
    IF close_venues_policies(d) = <<>>
    THEN {"cinemas", "groceries"}
    ELSE closed_venues_loop(close_venues_policies(d), {})

\* Policies.find_closed_venues
find_closed_venues(d) == closed_venues_loop(close_venues_policies(d), {})

\* The windows of the venue policies: around the first days, to the last
\* day, empty and inverted.
VenueWindows == { <<0, 2>>, <<1, MaxDay>>, <<2, 2>>, <<2, 1>> }

\* The policies a registry is given: CloseLeisureVenue policies with the
\* default venues or with venues of their own, the baseline once more, and a
\* Quarantine.
LookupCandidates ==
    { CloseLeisureVenue(w[1], w[2], v) :
        w \in VenueWindows, v \in { <<"cinemas", "groceries">>, <<"pubs", "cinemas">> } }
    \cup { PermanentPolicy,
           Quarantine(DefaultStart, DefaultEnd, n_days_default,
                      n_days_household_default, <<1, 1>>) }

\* What Policies(...) is called with: None, the empty list, one or two policies.
LookupArgs ==
    { PoliciesNone, PoliciesList(<<>>) }
    \cup { PoliciesList(<<p>>) : p \in LookupCandidates }
    \cup { PoliciesList(<<p, q>>) : p \in LookupCandidates, q \in LookupCandidates }

InitLookup == \E arg \in LookupArgs : InitRegistry(arg)

\* The step loop asks for the venues closed on the current date.
FindClosedVenues ==
    /\ NoQueryYet
    /\ call' = [op |-> "find_closed_venues", date |-> date,
                result |-> find_closed_venues(date)]
    /\ QueryFrame

\* The classes a lookup may be asked for: the variants and their bases.
Families == PolicyTypes \cup {"Policy", "StayHome", "SkipActivity"}

\* A caller asks the registry for the active policies of a class.
GetActivePolicies ==
    /\ NoQueryYet
    /\ \E policy_type \in Families :
            call' = [op |-> "get_active_policies_for_type",
                     policy_type |-> policy_type, date |-> date,
                     result |-> get_active_policies_for_type(policy_type, date)]
    /\ QueryFrame

\* The step loop builds the skip-activity collection of the current date.
BuildSkipActivityCollection ==
    /\ NoQueryYet
    /\ call' = [op |-> "skip_activity_collection", date |-> date,
                members |-> skip_activity_collection(date)]
    /\ QueryFrame

NextLookup ==
    FindClosedVenues \/ GetActivePolicies \/ BuildSkipActivityCollection \/ QueryNextDay

SpecLookup == InitLookup /\ [][NextLookup]_vars

\* ------------------------------------------------ skip activity queries
\* The skip-activity policies a registry is given: schools closed for the
\* years 13 and 15, for all years, in full, and with neither years nor full
\* closure; universities; companies closed for the furloughed, for a random
\* half, and in full.
SkipCandidates ==
    { CloseSchools(DefaultStart, DefaultEnd, Years(TRUE, {13, 15}), FALSE),
      CloseSchools(1, MaxDay, Years(TRUE, 0..19), FALSE),
      CloseSchools(0, MaxDay, Years(FALSE, {}), TRUE),
      CloseSchools(0, 1, Years(FALSE, {}), FALSE),
      CloseUniversities(0, MaxDay),
      CloseCompanies(DefaultStart, DefaultEnd, FALSE, None),
      CloseCompanies(1, MaxDay, FALSE, <<1, 2>>),
      CloseCompanies(0, 1, TRUE, None) }

SkipRegistries ==
    {<<>>}
    \cup { <<p>> : p \in SkipCandidates }
    \cup { <<p, q>> : p \in SkipCandidates, q \in SkipCandidates }

\* The persons asked about: pupils around the age of 14 and an adult, with or without
\* a primary activity, with each lockdown status, living with none, one or
\* two key workers.
Workers ==
    { Worker(age, primary_activity, lockdown_status, residents) :
        age \in {13, 14, 15, 30},
        primary_activity \in {"None", "school", "university", "company"},
        lockdown_status \in {"key_worker", "furlough", "random"},
        residents \in { <<>>, <<"key_worker", "furlough">>,
                        <<"key_worker", "random", "key_worker">> } }

\* The activity lists a collection is called with.
ActivityLists ==
    { <<>>,
      <<"primary_activity", "commute", "leisure", "residence">>,
      <<"commute", "leisure", "primary_activity", "commute">> }

InitSkip == \E given \in SkipRegistries : InitRegistry(PoliciesList(given))

\* The step loop builds the skip-activity collection of the current date and
\* asks it for the activities a person may still do.
SkipActivityCall ==
    /\ NoQueryYet
    /\ \E person \in Workers, activities \in ActivityLists, rands \in RandomDraws :
            call' = [op |-> "SkipActivityCollection", date |-> date,
                     members |-> skip_activity_collection(date), person |-> person,
                     activities |-> activities, rands |-> rands,
                     outcome |-> SkipActivityCollection_call(
                                    skip_activity_collection(date), person,
                                    activities, rands)]
    /\ QueryFrame

\* A registered CloseSchools policy is asked about a person.
CloseSchoolsCall ==
    /\ NoQueryYet
    /\ \E i \in 1..Len(policies), person \in Workers, activities \in ActivityLists :
            /\ policies[i].type = "CloseSchools"
            /\ call' = [op |-> "CloseSchools.skip_activity", policy |-> i,
                        person |-> person, activities |-> activities,
                        outcome |-> skip_activity(policies[i], person, activities, <<>>)]
    /\ QueryFrame

NextSkip == SkipActivityCall \/ CloseSchoolsCall \/ QueryNextDay

SpecSkip == InitSkip /\ [][NextSkip]_vars

\* ============================================================ properties
SDIndices == { i \in 1..Len(policies) : policies[i].type = "SocialDistancing" }
CLIndices == { i \in 1..Len(policies) : policies[i].type = "ChangeLeisureProbability" }

\* The run has called each applier once per day so far.
OncePerDay == repeats = 0

\* The calls for date d have been made.
SDCalledFor(d) == date > d \/ (date = d /\ sd_calls >= 1)
CLCalledFor(d) == date > d \/ (date = d /\ cl_calls >= 1)

\* The activities of a policy that the leisure table holds.
KnownOf(i) == Activities(policies[i]) \cap DOMAIN leisure_distributors

\* The curves policy i configures for activity a.
Configured(i, a) ==
    LET lp == policies[i].leisure_probabilities
        n == CHOOSE n \in 1..Len(lp) : lp[n].activity = a
    IN  Curves(lp[n].men, lp[n].women)

\* Policy i holds a captured value in its snapshot.
Captured(i) ==
    \/ \E k \in DOMAIN original_betas[i] : original_betas[i][k] # None
    \/ \E a \in DOMAIN original_leisure_probabilities[i] :
            DOMAIN original_leisure_probabilities[i][a] # {}

\* C1: a single SocialDistancing policy with start_time < end_time, applied
\* once per day from before start_time through end_time: after the call for
\* end_time every key of beta_factors has its initial coefficient again.
C1_SocialDistancingRoundTrip ==
    \A i \in SDIndices :
        ( /\ SDIndices = {i}
          /\ OncePerDay
          /\ 0 < policies[i].start_time
          /\ policies[i].start_time < policies[i].end_time
          /\ date = policies[i].end_time
          /\ sd_calls = 1 )
        => \A k \in DOMAIN policies[i].beta_factors : beta[k] = initial_beta[k]

\* C2: a single ChangeLeisureProbability policy with start_time < end_time
\* whose activities all exist in the leisure table, applied once per day from
\* before start_time through end_time: after the call for end_time every
\* configured activity has the male and female curves it had before the
\* start_time call.
C2_LeisureRoundTrip ==
    \A i \in CLIndices :
        ( /\ CLIndices = {i}
          /\ OncePerDay
          /\ Activities(policies[i]) \subseteq DOMAIN leisure_distributors
          /\ 0 < policies[i].start_time
          /\ policies[i].start_time < policies[i].end_time
          /\ date = policies[i].end_time
          /\ cl_calls = 1 )
        => /\ raised = "none"
           /\ \A a \in Activities(policies[i]) :
                leisure_distributors[a] = initial_leisure[a]

\* C2 witness: the end_time call of such a policy has been made, and the
\* policy had captured the curves at its start_time.
C2_Witness ==
    \E i \in CLIndices :
        /\ CLIndices = {i}
        /\ OncePerDay
        /\ Activities(policies[i]) \subseteq DOMAIN leisure_distributors
        /\ 0 < policies[i].start_time
        /\ policies[i].start_time < policies[i].end_time
        /\ date = policies[i].end_time
        /\ cl_calls = 1
        /\ \A a \in Activities(policies[i]) :
                /\ original_leisure_probabilities[i][a] = initial_leisure[a]
                /\ Configured(i, a) # initial_leisure[a]

\* C3: on a date on which policy A ends (activated earlier) and policy B
\* starts on the same activity, A is restored before B is activated whatever
\* the registration order: after the call the table holds B's curves and B's
\* snapshot holds the curves the table had before A was activated.
C3_DeactivationBeforeActivation ==
    \A A \in CLIndices : \A B \in CLIndices :
        ( /\ A # B
          /\ OncePerDay
          /\ raised = "none"
          /\ 0 < policies[A].start_time
          /\ policies[A].start_time < policies[A].end_time
          /\ policies[A].end_time = date
          /\ policies[B].start_time = date
          /\ policies[B].start_time < policies[B].end_time
          /\ cl_calls = 1 )
        => \A a \in KnownOf(A) \cap KnownOf(B) :
                /\ leisure_distributors[a] = Configured(B, a)
                /\ original_leisure_probabilities[B][a] = initial_leisure[a]

\* C3 holds when A is registered before B.
C3_RegisteredInOrder ==
    \A A \in CLIndices : \A B \in CLIndices :
        ( /\ A < B
          /\ OncePerDay
          /\ raised = "none"
          /\ 0 < policies[A].start_time
          /\ policies[A].start_time < policies[A].end_time
          /\ policies[A].end_time = date
          /\ policies[B].start_time = date
          /\ policies[B].start_time < policies[B].end_time
          /\ cl_calls = 1 )
        => \A a \in KnownOf(A) \cap KnownOf(B) :
                /\ leisure_distributors[a] = Configured(B, a)
                /\ original_leisure_probabilities[B][a] = initial_leisure[a]

\* C4: in a run of once-per-day calls that begins before start_time, a
\* stateful policy's snapshot holds captured values only on dates inside its
\* window: none before the activation call, none any more once the call for
\* end_time (the restoration) has been made.
C4_SnapshotLifetime ==
    \A i \in SDIndices \cup CLIndices :
        ( /\ OncePerDay
          /\ 0 < policies[i].start_time
          /\ policies[i].start_time < policies[i].end_time
          /\ Captured(i) )
        => /\ policies[i].start_time <= date
           /\ IF i \in SDIndices
              THEN ~SDCalledFor(policies[i].end_time)
              ELSE ~CLCalledFor(policies[i].end_time)

\* The SocialDistancing policies a call for date d activates, and the product
\* of their factors for key k.
Activating(d) ==
    { j \in SDIndices : policies[j].start_time = d /\ d < policies[j].end_time }

RECURSIVE FactorProduct(_, _)
FactorProduct(S, k) ==
    IF S = {} THEN <<1, 1>>
    ELSE LET j == CHOOSE j \in S : TRUE
             f == IF k \in DOMAIN policies[j].beta_factors
                  THEN policies[j].beta_factors[k] ELSE <<1, 1>>
         IN  Mul(f, FactorProduct(S \ {j}, k))

\* interaction.beta[k] immediately before policy i is activated by a call
\* for the current date: the value before the call, multiplied by the
\* factors of the policies the call activates before i.
BeforeActivation(i, k) ==
    Mul(beta[k], FactorProduct({ j \in Activating(date) : j < i }, k))

\* C5 as stated: for every SocialDistancing policy whose start_time equals
\* the query date and every key k of its beta_factors, after the call
\* original_betas[k] is the value interaction.beta[k] had immediately before
\* that policy's activation and interaction.beta[k] is that value multiplied
\* by beta_factors[k].
C5_ActivationAsStated ==
    [][ sd_calls' = sd_calls + 1 =>
            \A i \in SDIndices :
                policies[i].start_time = date =>
                    \A k \in DOMAIN policies[i].beta_factors :
                        /\ original_betas'[i][k] = BeforeActivation(i, k)
                        /\ beta'[k] = Mul(BeforeActivation(i, k),
                                          policies[i].beta_factors[k]) ]_vars

\* C5 amended: for every SocialDistancing policy whose start_time equals the
\* query date and precedes its end_time, and every key k of its
\* beta_factors, after the call original_betas[k] is the value
\* interaction.beta[k] had immediately before that policy's activation, and
\* interaction.beta[k] is that value multiplied by beta_factors[k] and by the
\* factor for k of every later-registered policy the same call activates.
C5_Activation ==
    [][ sd_calls' = sd_calls + 1 =>
            \A i \in SDIndices :
                (policies[i].start_time = date /\ date < policies[i].end_time) =>
                    \A k \in DOMAIN policies[i].beta_factors :
                        /\ original_betas'[i][k] = BeforeActivation(i, k)
                        /\ beta'[k] =
                            Mul(Mul(original_betas'[i][k], policies[i].beta_factors[k]),
                                FactorProduct({ j \in Activating(date) : j > i }, k)) ]_vars

\* C5 witness: the first call for the start_time of a policy has been made;
\* the snapshot holds the initial coefficient and the table the coefficient
\* multiplied by the factor (not the same value).
C5_Witness ==
    \E i \in SDIndices :
        /\ SDIndices = {i}
        /\ policies[i].start_time = date
        /\ date < policies[i].end_time
        /\ sd_calls = 1
        /\ \A k \in DOMAIN policies[i].beta_factors :
                /\ original_betas[i][k] = initial_beta[k]
                /\ beta[k] = Mul(initial_beta[k], policies[i].beta_factors[k])
                /\ beta[k] # initial_beta[k]

\* The window of each variant: closed for ChangeLeisureProbability, half-open
\* for every other one.
InWindow(policy, d) ==
    IF policy.type = "ChangeLeisureProbability"
    THEN policy.start_time <= d /\ d <= policy.end_time
    ELSE policy.start_time <= d /\ d < policy.end_time

Range(seq) == { seq[n] : n \in 1..Len(seq) }

\* C6: is_active(date) is true iff start_time <= date < end_time for every
\* variant but ChangeLeisureProbability, for which it is true iff
\* start_time <= date <= end_time, on every date from the default start to
\* the default end; and the registry's lookup for the current date returns
\* the policies whose window holds it.
C6_IsActiveWindow ==
    LET active == Range(get_active_policies_for_type("Policy", date))
    IN  \A i \in 1..Len(policies) :
            /\ \A d \in DefaultStart..DefaultEnd :
                    is_active(policies[i], d) <=> InWindow(policies[i], d)
            /\ i \in active <=> InWindow(policies[i], date)

\* C6 witness: the call for a date that is the end_time of a SocialDistancing
\* policy and of a ChangeLeisureProbability policy, both started earlier: the
\* first is not active on it, the second is.
C6_Witness ==
    \E i \in SDIndices : \E j \in CLIndices :
        /\ policies[i].start_time < date
        /\ policies[j].start_time < date
        /\ policies[i].end_time = date
        /\ policies[j].end_time = date
        /\ sd_calls = 1
        /\ cl_calls = 1
        /\ ~is_active(policies[i], date)
        /\ is_active(policies[j], date)

\* The date is neither the start_time nor the end_time of a policy in S.
NonBoundary(S, d) ==
    \A i \in S : policies[i].start_time # d /\ policies[i].end_time # d

\* C7: a call of an applier for a date that is neither the start_time nor the
\* end_time of any registered policy of its family leaves the collaborator
\* table and every policy's snapshot unchanged (and raises nothing).
C7_FrameOnNonBoundaryDates ==
    [][ /\ (sd_calls' = sd_calls + 1 /\ NonBoundary(SDIndices, date))
            => (beta' = beta /\ original_betas' = original_betas)
        /\ (cl_calls' = cl_calls + 1 /\ NonBoundary(CLIndices, date))
            => /\ leisure_distributors' = leisure_distributors
               /\ original_leisure_probabilities' = original_leisure_probabilities
               /\ raised' = "none" ]_vars

\* C7 witness: both appliers have been called for a date strictly inside the
\* windows of a SocialDistancing and a ChangeLeisureProbability policy that
\* are in effect (the tables differ from the initial ones).
C7_Witness ==
    \E i \in SDIndices : \E j \in CLIndices :
        /\ NonBoundary(SDIndices, date)
        /\ NonBoundary(CLIndices, date)
        /\ is_active(policies[i], date)
        /\ is_active(policies[j], date)
        /\ 0 <= policies[i].start_time
        /\ sd_calls >= 1
        /\ cl_calls >= 1
        /\ beta # initial_beta
        /\ leisure_distributors # initial_leisure

\* C8: for a stateful policy whose start_time == end_time, once the call for
\* that date has returned, and on every later date, each configured key of
\* the collaborator table holds the value it had before that call.
C8_DegenerateWindow ==
    \A i \in SDIndices \cup CLIndices :
        ( /\ SDIndices \cup CLIndices = {i}
          /\ OncePerDay
          /\ raised = "none"
          /\ policies[i].start_time = policies[i].end_time
          /\ IF i \in SDIndices
             THEN SDCalledFor(policies[i].start_time)
             ELSE CLCalledFor(policies[i].start_time) )
        => /\ \A k \in DOMAIN policies[i].beta_factors : beta[k] = initial_beta[k]
           /\ \A a \in KnownOf(i) : leisure_distributors[a] = initial_leisure[a]

\* C9: a second call of apply_social_distancing_policy for the same date
\* leaves interaction.beta and every original_betas as the first call left
\* them.
C9_Idempotence ==
    [][ (sd_calls' = sd_calls + 1 /\ sd_calls >= 1)
            => (beta' = beta /\ original_betas' = original_betas) ]_vars

\* Policy i names an activity the table does not hold.
NamesAbsent(i) == ~(Activities(policies[i]) \subseteq DOMAIN leisure_distributors)

\* C10 as stated: a call of apply_change_probabilities_leisure for a date
\* that is the start_time or the end_time of a ChangeLeisureProbability
\* policy naming an absent activity raises PolicyError.
C10_PolicyErrorAsStated ==
    [][ ( /\ cl_calls' = cl_calls + 1
          /\ \E i \in CLIndices :
                /\ NamesAbsent(i)
                /\ (policies[i].start_time = date \/ policies[i].end_time = date) )
        => raised' = "PolicyError" ]_vars

\* Policy j is restored by a call for date d (it ends on d and does not start
\* on it) with a snapshot that was never captured.
RestoresUncaptured(j, d) ==
    /\ policies[j].start_time < d
    /\ policies[j].end_time = d
    /\ \E a \in KnownOf(j) : DOMAIN original_leisure_probabilities[j][a] = {}

\* C10 amended: a call for a date that is the start_time or the end_time of a
\* ChangeLeisureProbability policy which names an absent activity and is
\* active on that date (start_time <= date <= end_time) never returns
\* normally: it raises PolicyError, or a KeyError when it restores a policy
\* whose snapshot was never captured.
C10_PolicyError ==
    [][ ( /\ cl_calls' = cl_calls + 1
          /\ \E i \in CLIndices :
                /\ NamesAbsent(i)
                /\ policies[i].start_time <= date
                /\ date <= policies[i].end_time
                /\ (policies[i].start_time = date \/ policies[i].end_time = date) )
        => \/ raised' = "PolicyError"
           \/ /\ raised' = "KeyError"
              /\ \E j \in CLIndices : RestoresUncaptured(j, date) ]_vars

\* C10 witnesses: PolicyError has been raised by the call for the start_time
\* of a policy naming an absent activity ...
C10_Witness ==
    /\ raised = "PolicyError"
    /\ \E i \in CLIndices :
            /\ NamesAbsent(i)
            /\ policies[i].start_time = date
            /\ date < policies[i].end_time

\* ... and by the call for the end_time of one.
C10_WitnessRestoration ==
    /\ raised = "PolicyError"
    /\ CLIndices # {}
    /\ \A i \in CLIndices :
            /\ NamesAbsent(i)
            /\ policies[i].start_time < date
            /\ policies[i].end_time = date

\* The state of the call of apply_change_probabilities_leisure for the current
\* date when its loop reaches position p of the active policies.
CLStateBefore(p) ==
    cl_policies_loop(SubSeq(get_change_leisure_probabilities_policies(date), 1, p - 1),
                     date,
                     [leisure_distributors |-> leisure_distributors,
                      original_leisure_probabilities |-> original_leisure_probabilities,
                      raised |-> "none"])

\* The position of the first activity of policy i that the table does not hold.
FirstAbsent(i) ==
    LET lp == policies[i].leisure_probabilities
    IN  CHOOSE n \in 1..Len(lp) :
            /\ lp[n].activity \notin DOMAIN leisure_distributors
            /\ \A m \in 1..(n - 1) : lp[m].activity \in DOMAIN leisure_distributors

\* C11: when the activation of a ChangeLeisureProbability policy fails on an
\* activity the table does not hold, the call raises PolicyError and nothing
\* is rolled back: the activities configured before it carry the configured
\* curves and the policy's snapshot holds the curves they replaced; every
\* other activity of the table, the snapshot slots of the activities
\* configured from the absent one on, and every other policy's snapshot are
\* as they were when the activation began.
C11_PartialActivation ==
    [][ cl_calls' = cl_calls + 1 =>
        LET active == get_change_leisure_probabilities_policies(date)
        IN  \A p \in 1..Len(active) :
                LET i == active[p]
                    lp == policies[i].leisure_probabilities
                    pre == CLStateBefore(p)
                IN  ( /\ policies[i].start_time = date
                      /\ NamesAbsent(i)
                      /\ pre.raised = "none" )
                    => LET n == FirstAbsent(i)
                           before == { lp[m].activity : m \in 1..(n - 1) }
                       IN  /\ raised' = "PolicyError"
                           /\ \A m \in 1..(n - 1) :
                                /\ leisure_distributors'[lp[m].activity] =
                                        Curves(lp[m].men, lp[m].women)
                                /\ original_leisure_probabilities'[i][lp[m].activity] =
                                        pre.leisure_distributors[lp[m].activity]
                           /\ \A a \in DOMAIN leisure_distributors \ before :
                                leisure_distributors'[a] = pre.leisure_distributors[a]
                           /\ \A m \in n..Len(lp) :
                                original_leisure_probabilities'[i][lp[m].activity] =
                                    pre.original_leisure_probabilities[i][lp[m].activity]
                           /\ \A j \in 1..Len(policies) :
                                j # i => original_leisure_probabilities'[j] =
                                            pre.original_leisure_probabilities[j]
      ]_vars

\* C11 witness: PolicyError has been raised by the activation of a policy
\* that configures a known activity before the absent one and a known
\* activity after it: the first carries the policy's curves and is captured,
\* the second has neither.
C11_Witness ==
    /\ raised = "PolicyError"
    /\ \E i \in CLIndices :
            LET lp == policies[i].leisure_probabilities
            IN  /\ policies[i].start_time = date
                /\ NamesAbsent(i)
                /\ \E m \in 1..Len(lp), k \in 1..Len(lp) :
                        /\ m < FirstAbsent(i)
                        /\ FirstAbsent(i) < k
                        /\ lp[k].activity \in DOMAIN leisure_distributors
                        /\ leisure_distributors[lp[m].activity] =
                                Curves(lp[m].men, lp[m].women)
                        /\ DOMAIN original_leisure_probabilities[i][lp[m].activity] = Sexes
                        /\ leisure_distributors[lp[k].activity] #
                                Curves(lp[k].men, lp[k].women)
                        /\ DOMAIN original_leisure_probabilities[i][lp[k].activity] = {}

\* A value that is neither a str nor a date.
OtherType(d) == d.kind \notin {"str", "date", "datetime"}

\* C12 as stated: constructing a policy with a start_time or an end_time that
\* is neither a string nor a date fails with ConfigurationError, and no
\* policy object exists to be queried.
C12_ConfigurationErrorAsStated ==
    ( /\ call.op = "Policy.__init__"
      /\ (OtherType(call.start_time) \/ OtherType(call.end_time)) )
    => /\ call.result.raised = "ConfigurationError"
       /\ ~call.result.constructed

\* C12 amended: constructing a policy with a start_time or an end_time that
\* is neither a string nor a date yields no policy object: the constructor
\* raises TypeError, or ValueError when start_time, which is read first, is a
\* string that is not a date in the format "%Y-%m-%d".
C12_TypeErrorAtConstruction ==
    ( /\ call.op = "Policy.__init__"
      /\ (OtherType(call.start_time) \/ OtherType(call.end_time)) )
    => /\ ~call.result.constructed
       /\ call.result.raised =
            IF call.start_time.kind = "str" /\ ~call.start_time.well_formed
            THEN "ValueError" ELSE "TypeError"

\* C12 witness: a constructor given a date string as start_time and an int
\* as end_time has raised TypeError.
C12_Witness ==
    /\ call.op = "Policy.__init__"
    /\ call.start_time.kind = "str"
    /\ call.start_time.well_formed
    /\ call.end_time.kind = "int"
    /\ call.result.raised = "TypeError"
    /\ ~call.result.constructed

\* C13: StayHomeCollection, asked about a person whose hospital is set,
\* returns False and calls no member's must_stay_at_home, whatever its
\* members are.
C13_HospitalOverride ==
    (call.op = "StayHomeCollection" /\ call.person.hospital # "None")
    => /\ call.outcome.result = FALSE
       /\ call.outcome.evaluated = <<>>
       /\ call.outcome.raised = "none"

\* C13 witness: the collection has answered False for a severely symptomatic
\* person in hospital, with the baseline policy and a Quarantine among its
\* members.
C13_Witness ==
    /\ call.op = "StayHomeCollection"
    /\ call.person.hospital = "hospital"
    /\ call.person.health_information.present
    /\ call.person.health_information.tag = "severe"
    /\ \E n \in 1..Len(call.members) : policies[call.members[n]].type = "Quarantine"
    /\ call.outcome.result = FALSE
    /\ call.outcome.evaluated = <<>>

\* C14: for a person not in hospital StayHomeCollection asks its members in
\* registration order: the members asked are a prefix of the members, every
\* member asked before the last one returned False, the result is True iff
\* the last member asked returned True, and when the result is False every
\* member was asked (and returned False).
C14_ShortCircuit ==
    ( /\ call.op = "StayHomeCollection"
      /\ call.person.hospital = "None"
      /\ call.outcome.raised = "none" )
    => LET asked == call.outcome.evaluated
           returns == call.outcome.returns
           n == Len(asked)
       IN  /\ n <= Len(call.members)
           /\ asked = SubSeq(call.members, 1, n)
           /\ Len(returns) = n
           /\ \A k \in 1..(n - 1) : returns[k] = FALSE
           /\ call.outcome.result = (n > 0 /\ returns[n])
           /\ (~call.outcome.result) => asked = call.members

\* C14 witness: of three members the first returned False, the second True,
\* and the third was not asked.
C14_Witness ==
    /\ call.op = "StayHomeCollection"
    /\ call.person.hospital = "None"
    /\ Len(call.members) = 3
    /\ call.outcome.evaluated = SubSeq(call.members, 1, 2)
    /\ call.outcome.returns = <<FALSE, TRUE>>
    /\ call.outcome.result = TRUE

\* C18: Quarantine.must_stay_at_home, when the household's quarantine does
\* not apply, is True iff the person's symptom tag is mild or severe and
\* time_of_symptoms_onset < days_from_start < time_of_symptoms_onset + n_days.
C18_SelfQuarantineWindow ==
    (call.op = "Quarantine.must_stay_at_home" /\ ~call.housemates)
    => LET person == call.person
           onset == person.health_information.time_of_symptoms_onset
           n_days == policies[call.policy].n_days
       IN  /\ call.outcome.raised = "none"
           /\ call.outcome.value =
                ( /\ person.symptoms.readable
                  /\ person.symptoms.tag \in {"mild", "severe"}
                  /\ person.health_information.present
                  /\ onset < call.days_from_start
                  /\ call.days_from_start < onset + n_days )

\* C18 witness: with n_days = 7 and symptoms from day 5, a mildly symptomatic
\* person whose household is not in quarantine must stay home on day 8.
C18_Witness ==
    /\ call.op = "Quarantine.must_stay_at_home"
    /\ ~call.housemates
    /\ policies[call.policy].n_days = n_days_default
    /\ call.person.symptoms.readable
    /\ call.person.symptoms.tag = "mild"
    /\ call.person.health_information.present
    /\ call.person.health_information.time_of_symptoms_onset = 5
    /\ call.days_from_start = 8
    /\ call.outcome.value = TRUE

\* C18 witness: the same person is released on day 12.
C18_WitnessReleased ==
    /\ call.op = "Quarantine.must_stay_at_home"
    /\ ~call.housemates
    /\ policies[call.policy].n_days = n_days_default
    /\ call.person.symptoms.readable
    /\ call.person.symptoms.tag = "mild"
    /\ call.person.health_information.present
    /\ call.person.health_information.time_of_symptoms_onset = 5
    /\ call.days_from_start = 12
    /\ call.outcome.value = FALSE

\* C19: Quarantine.must_stay_at_home, asked about a person whose symptoms
\* cannot be read or who has no health information, raises nothing and
\* returns what the household's quarantine answers.
C19_SymptomReadFailureSwallowed ==
    ( /\ call.op = "Quarantine.must_stay_at_home"
      /\ \/ ~call.person.symptoms.readable
         \/ ~call.person.health_information.present )
    => /\ call.outcome.raised = "none"
       /\ call.outcome.value = call.housemates

\* C19 witness: the policy has answered for a mildly symptomatic person
\* without health information, on a day inside the window, with the
\* household's answer False.
C19_Witness ==
    /\ call.op = "Quarantine.must_stay_at_home"
    /\ call.person.symptoms.readable
    /\ call.person.symptoms.tag = "mild"
    /\ ~call.person.health_information.present
    /\ call.days_from_start = 8
    /\ ~call.housemates
    /\ call.outcome.raised = "none"
    /\ call.outcome.value = FALSE

\* The registered CloseLeisureVenue policies.
CLVIndices == { i \in 1..Len(policies) : policies[i].type = "CloseLeisureVenue" }

\* C16: find_closed_venues(date) is the union of venues_to_close over the
\* registered CloseLeisureVenue policies with start_time <= date < end_time:
\* a venue that only policies outside their window name is not in it, and a
\* venue is in it whenever one policy inside its window names it, whatever
\* the other policies are.
C16_ClosedVenuesUnion ==
    call.op = "find_closed_venues"
    => call.result =
        UNION { Range(policies[i].venues_to_close) :
                i \in { j \in CLVIndices :
                            /\ policies[j].start_time <= call.date
                            /\ call.date < policies[j].end_time } }

\* C16 witness: two policies inside their windows name different venues and
\* the result holds the venues of both.
C16_Witness ==
    /\ call.op = "find_closed_venues"
    /\ \E i \in CLVIndices, j \in CLVIndices :
            /\ is_active(policies[i], call.date)
            /\ is_active(policies[j], call.date)
            /\ Range(policies[i].venues_to_close) # Range(policies[j].venues_to_close)
            /\ call.result = Range(policies[i].venues_to_close)
                                \cup Range(policies[j].venues_to_close)

\* C16 witness: a venue named only by a policy outside its window is not in
\* the result of a date on which another policy closes venues.
C16_WitnessInactive ==
    /\ call.op = "find_closed_venues"
    /\ call.result # {}
    /\ \E j \in CLVIndices :
            /\ ~is_active(policies[j], call.date)
            /\ \E v \in Range(policies[j].venues_to_close) : v \notin call.result

\* C17: the registry Policies(arg) builds is one baseline PermanentPolicy
\* followed by the policies of arg in their order, for None, for the empty
\* list and for a list that holds a PermanentPolicy itself: the registry has
\* one policy more than the list, and that policy is the baseline at its head.
C17_BaselineFirst ==
    call.op = "Policies"
    => LET given == IF call.policies.is_none THEN <<>> ELSE call.policies.list
       IN  /\ Len(policies) = Len(given) + 1
           /\ policies[1] = PermanentPolicy
           /\ \A n \in 1..Len(given) : policies[n + 1] = given[n]

\* C17 witness: a registry built from a list whose second policy is a
\* PermanentPolicy.
C17_Witness ==
    /\ call.op = "Policies"
    /\ ~call.policies.is_none
    /\ Len(call.policies.list) = 2
    /\ call.policies.list[2] = PermanentPolicy
    /\ call.policies.list[1] # PermanentPolicy
    /\ Len(policies) = 3
    /\ policies[1] = PermanentPolicy

\* C17 witness: a registry built from None.
C17_WitnessNone ==
    /\ call.op = "Policies"
    /\ call.policies.is_none
    /\ policies = <<PermanentPolicy>>

\* sub is what is left of full when some of its elements are taken out.
RECURSIVE IsSubList(_, _)
IsSubList(sub, full) ==
    IF sub = <<>> THEN TRUE
    ELSE IF full = <<>> THEN FALSE
    ELSE IF Head(sub) = Head(full) THEN IsSubList(Tail(sub), Tail(full))
    ELSE IsSubList(sub, Tail(full))

\* C15: SkipActivityCollection gives its list to its members in registration
\* order, each member receiving what the previous one returned: with no
\* member the result is the list it was called with; the list a member
\* returns is an order-preserving sub-list of the list returned before it,
\* the result is the list the last member returned, and so an activity an
\* earlier member removed is in no later list.
C15_ThreadedSubList ==
    (call.op = "SkipActivityCollection" /\ call.outcome.raised = "none")
    => LET steps == call.outcome.steps
           before(k) == IF k = 1 THEN call.activities ELSE steps[k - 1]
       IN  /\ Len(steps) = Len(call.members)
           /\ call.members = <<>> => call.outcome.activities = call.activities
           /\ \A k \in 1..Len(steps) : IsSubList(steps[k], before(k))
           /\ steps # <<>> => call.outcome.activities = steps[Len(steps)]
           /\ IsSubList(call.outcome.activities, call.activities)
           /\ \A k \in 1..Len(steps), l \in 1..Len(steps) :
                k < l => Range(steps[l]) \subseteq Range(steps[k])

\* C15 witness: the first of two members removed an activity, the second
\* returned the list it was given, and the result lacks the activity.
C15_Witness ==
    /\ call.op = "SkipActivityCollection"
    /\ call.outcome.raised = "none"
    /\ Len(call.members) = 2
    /\ "primary_activity" \in Range(call.activities)
    /\ "primary_activity" \notin Range(call.outcome.steps[1])
    /\ policies[call.members[1]].type # policies[call.members[2]].type
    /\ call.outcome.steps[2] = call.outcome.steps[1]
    /\ call.outcome.activities = SelectSeq(call.activities,
                                    LAMBDA a: a # "primary_activity")

\* C15 witness: a collection without members has returned the list it was
\* called with.
C15_WitnessNoMembers ==
    /\ call.op = "SkipActivityCollection"
    /\ call.members = <<>>
    /\ call.activities # <<>>
    /\ call.outcome.activities = call.activities

\* C20: a policy with start_time >= end_time never activates: on every date
\* the appliers have been called for, is_active is false and the registry's
\* lookup does not return the policy; its snapshot is never captured; and
\* when it is the only stateful policy the collaborator tables are as they
\* were before the run.
C20_InvertedWindowNeverActivates ==
    \A i \in 1..Len(policies) :
        policies[i].start_time >= policies[i].end_time
        => /\ \A d \in 0..date :
                (SDCalledFor(d) /\ CLCalledFor(d))
                => /\ ~is_active(policies[i], d)
                   /\ i \notin Range(get_active_policies_for_type("Policy", d))
           /\ ~Captured(i)
           /\ (SDIndices \cup CLIndices = {i})
                => (beta = initial_beta /\ leisure_distributors = initial_leisure)

\* The number of residents with lockdown_status "key_worker".
KeyWorkers(residents) ==
    Cardinality({ n \in 1..Len(residents) : residents[n] = "key_worker" })

\* C21: CloseSchools.skip_activity, for a person whose primary activity is a
\* school and to whom the closure applies (full_closure, or age in
\* years_to_close), returns the list without "primary_activity", unless the
\* person is younger than 14 and at least two residents of the residence are
\* key workers, when it returns the list as it is; at 14 or above, and with
\* fewer than two key workers, the activity is removed.
C21_SchoolClosureExemption ==
    LET policy == policies[call.policy]
        person == call.person
    IN  ( /\ call.op = "CloseSchools.skip_activity"
          /\ person.primary_activity = "school"
          /\ \/ policy.full_closure
             \/ (policy.years_to_close.given /\ person.age \in policy.years_to_close.years) )
        => /\ call.outcome.raised = "none"
           /\ call.outcome.activities =
                IF person.age < 14 /\ KeyWorkers(person.residents) >= 2
                THEN call.activities
                ELSE SelectSeq(call.activities, LAMBDA a: a # "primary_activity")

\* C21 witness: a pupil of 13 with two key workers at home keeps the primary
\* activity under a closure that applies to the age.
C21_Witness ==
    /\ call.op = "CloseSchools.skip_activity"
    /\ call.person.primary_activity = "school"
    /\ call.person.age = 13
    /\ ~policies[call.policy].full_closure
    /\ 13 \in policies[call.policy].years_to_close.years
    /\ KeyWorkers(call.person.residents) = 2
    /\ "primary_activity" \in Range(call.activities)
    /\ call.outcome.activities = call.activities

\* C21 witness: a pupil of 14 with two key workers at home loses it.
C21_WitnessFourteen ==
    /\ call.op = "CloseSchools.skip_activity"
    /\ call.person.primary_activity = "school"
    /\ call.person.age = 14
    /\ KeyWorkers(call.person.residents) = 2
    /\ "primary_activity" \in Range(call.activities)
    /\ "primary_activity" \notin Range(call.outcome.activities)

\* C22: a lookup for a class no registered policy belongs to returns the
\* empty list on every date; on a registry built without policies
\* find_closed_venues returns the empty set and skip_activity_collection has
\* no members.
C22_EmptyLookups ==
    /\ ( /\ call.op = "get_active_policies_for_type"
         /\ ~\E i \in 1..Len(policies) : isinstance(policies[i], call.policy_type) )
       => call.result = <<>>
    /\ (call.op = "find_closed_venues" /\ Len(policies) = 1)
       => call.result = {}
    /\ (call.op = "skip_activity_collection" /\ Len(policies) = 1)
       => call.members = <<>>

\* C22 witness: the registry built from None has answered find_closed_venues
\* with the empty set on the last day.
C22_Witness ==
    /\ call.op = "find_closed_venues"
    /\ policies = <<PermanentPolicy>>
    /\ call.date = MaxDay
    /\ call.result = {}

\* C22 witness: a registry holding venue policies has answered a lookup for
\* SocialDistancing with the empty list.
C22_WitnessNoSuchFamily ==
    /\ call.op = "get_active_policies_for_type"
    /\ call.policy_type = "SocialDistancing"
    /\ Len(policies) = 3
    /\ call.result = <<>>

\* C23: two ChangeLeisureProbability policies on the same activity, each
\* with start_time < end_time, both starting inside the run, with windows
\* that overlap: once the applier has been called, once per day, for the
\* later end_time, the activity's curves are those it had before the run.
C23_StackedRestoreBaseline ==
    \A i \in CLIndices, j \in CLIndices :
        ( /\ i < j
          /\ CLIndices = {i, j}
          /\ OncePerDay
          /\ raised = "none"
          /\ 0 <= policies[i].start_time
          /\ 0 <= policies[j].start_time
          /\ policies[i].start_time < policies[i].end_time
          /\ policies[j].start_time < policies[j].end_time
          /\ policies[i].start_time < policies[j].end_time
          /\ policies[j].start_time < policies[i].end_time
          /\ CLCalledFor(policies[i].end_time)
          /\ CLCalledFor(policies[j].end_time) )
        => \A a \in KnownOf(i) \cap KnownOf(j) :
                leisure_distributors[a] = initial_leisure[a]

\* C24: a single SocialDistancing policy, the applier called once per day
\* from the first day of the run, which may lie before, on or after
\* start_time: after the call for a date on which the policy is active every
\* key of beta_factors holds its initial coefficient multiplied by its
\* factor.
C24_EffectTracksActivity ==
    \A i \in SDIndices :
        ( /\ SDIndices = {i}
          /\ OncePerDay
          /\ is_active(policies[i], date)
          /\ sd_calls >= 1 )
        => \A k \in DOMAIN policies[i].beta_factors :
                beta[k] = Mul(initial_beta[k], policies[i].beta_factors[k])

\* C25: whatever policies the registry was given, on every date of the
\* baseline's default window the stay-home collection of the date answers
\* True for a person who is not in hospital and whose health information
\* holds the tag severe: the baseline is its first member and answers True.
C25_BaselineInForce ==
    ( /\ call.op = "StayHomeCollection"
      /\ DefaultStart <= call.date
      /\ call.date < DefaultEnd
      /\ call.person.hospital = "None"
      /\ call.person.health_information.present
      /\ call.person.health_information.tag = "severe" )
    => /\ call.outcome.raised = "none"
       /\ call.outcome.result = TRUE
       /\ call.members # <<>>
       /\ policies[call.members[1]] = PermanentPolicy

\* C25 witness: a registry given Shielding policies only has answered True,
\* on the last day, for a severely symptomatic person below the shielding
\* age whose household is not in quarantine.
C25_Witness ==
    /\ call.op = "StayHomeCollection"
    /\ call.date = MaxDay
    /\ Len(policies) = 3
    /\ \A i \in 2..Len(policies) : policies[i].type = "Shielding"
    /\ call.person.hospital = "None"
    /\ call.person.age = 69
    /\ call.person.health_information.present
    /\ call.person.health_information.tag = "severe"
    /\ ~call.housemates
    /\ call.outcome.result = TRUE

====
